---- MODULE Spec2Model ----
(***************************************************************************)
(* Model of contracts/BiodiversityLandParcel.sol: the landParcels mapping, *)
(* the two events it emits, and its five external functions.  Every        *)
(* external function is one transaction: it either commits all of its      *)
(* writes or reverts and leaves storage and the event log as they were.    *)
(***************************************************************************)
EXTENDS Integers, Sequences, FiniteSets, TLC

\* ------------------------------------------------------------------ bounds
MaxLog == 3        \* events emitted before the model stops committing writes
MaxTime == 2       \* largest block.timestamp the model reaches

\* ------------------------------------------------------- program constants
MAX_SCORE == 100
SUCCESS == 22
INVALID_TRANSACTION == 7
TOKEN_NOT_ASSOCIATED_TO_ACCOUNT == 173
INSUFFICIENT_ACCOUNT_BALANCE == 15
INSUFFICIENT_TOKEN_BALANCE == 174
PRECOMPILED_TOKEN_SERVICE == 359   \* address(0x167)

ScoreError == "Biodiversity score must be 0-100"
NoDataError == "No biodiversity data exists for this token"
AssociateError == "Token association failed"
TransferError == "Token transfer failed"
CallFault == "external call reverted"
DecodeFault == "return data too short"
NoError == ""

\* ------------------------------------------------------------ input values
ZeroAddress == "0x0"
TokenIds == {"P", "Q"}
Senders == {"A", "B"}
Accounts == {"acc1", "acc2"}
Scores == {0, 100, 101}
EcosystemTypes == {"Tropical Rainforest", "wetland"}
Amounts == {-1, 0, 1}

\* the timestamps the next block may carry: block.timestamp never decreases
BlockTimes(latest) == {t \in latest..MaxTime : t <= latest + 1}

\* the codes the external service may answer with: the documented ones and
\* one more (0) that the library does not name
ResponseWords == {SUCCESS, INVALID_TRANSACTION, TOKEN_NOT_ASSOCIATED_TO_ACCOUNT,
                  INSUFFICIENT_ACCOUNT_BALANCE, INSUFFICIENT_TOKEN_BALANCE, 0}

\* what a message call to the service yields: the success flag of the call
\* and the (already word-split) return data
ServiceResponses ==
    {[success |-> FALSE, data |-> <<>>]}
    \cup {[success |-> TRUE, data |-> d] : d \in {<<>>} \cup {<<w>> : w \in ResponseWords}}

VARIABLES
    landParcels,    \* mapping(address => BiodiversityData)
    tokenService,   \* IHederaTokenService private tokenService
    log,            \* the events emitted by committed transactions, in order
    now,            \* block.timestamp of the latest transaction
    pre,            \* storage and log as the latest transaction found them
    last,           \* the latest transaction: call, outcome, external calls
    demo            \* the demo script's run: position, locals, steps tried, output

vars == <<landParcels, tokenService, log, now, pre, last, demo>>

\* the contract's side of the state
contractVars == <<landParcels, tokenService, log, now, pre, last>>

\* ------------------------------------------------------------------- types
\* the value a mapping slot holds before any write
ZeroRecord ==
    [biodiversityScore |-> 0, ecosystemType |-> "", verificationTimestamp |-> 0,
     verifier |-> ZeroAddress, isVerified |-> FALSE]

BiodiversityDataAdded(tokenId, biodiversityScore, ecosystemType) ==
    [event |-> "BiodiversityDataAdded", tokenId |-> tokenId,
     biodiversityScore |-> biodiversityScore, ecosystemType |-> ecosystemType]

\* variant of the verified event: the timestamp field left at zero
BiodiversityDataVerifiedUnstamped(tokenId, verifier, timestamp) ==
    [event |-> "BiodiversityDataVerified", tokenId |-> tokenId,
     verifier |-> verifier, timestamp |-> 0]

BiodiversityDataVerified(tokenId, verifier, timestamp) ==
    [event |-> "BiodiversityDataVerified", tokenId |-> tokenId,
     verifier |-> verifier, timestamp |-> timestamp]

\* --------------------------------------------------------- pure fragments
\* variants of the range check: the bound excluded, the bound off by one
ScoreInRangeExclusive(biodiversityScore) == biodiversityScore < MAX_SCORE

ScoreInRangeOffByOne(biodiversityScore) == biodiversityScore <= MAX_SCORE + 1

\* require(biodiversityScore <= 100, ...)
ScoreInRange(biodiversityScore) == biodiversityScore <= MAX_SCORE

\* variant of the write: score and type merged into the stored record
NewRecordMerged(old, biodiversityScore, ecosystemType) ==
    [old EXCEPT !.biodiversityScore = biodiversityScore,
                !.ecosystemType = ecosystemType]

\* the struct literal addBiodiversityData stores
NewRecord(old, biodiversityScore, ecosystemType) ==
    [biodiversityScore |-> biodiversityScore, ecosystemType |-> ecosystemType,
     verificationTimestamp |-> 0, verifier |-> ZeroAddress, isVerified |-> FALSE]

\* variant of the existence check: zero accepted
DataExistsOrZero(rec) == rec.biodiversityScore >= 0

\* require(landParcels[tokenId].biodiversityScore > 0, ...)
DataExists(rec) == rec.biodiversityScore > 0

\* variants of the verification: the timestamp write missing, the verifier
\* write missing, a verified record left as it is
VerifiedRecordNoTimestamp(rec, sender, timestamp) ==
    [rec EXCEPT !.isVerified = TRUE, !.verifier = sender]

VerifiedRecordNoVerifier(rec, sender, timestamp) ==
    [rec EXCEPT !.isVerified = TRUE, !.verificationTimestamp = timestamp]

VerifiedRecordLatched(rec, sender, timestamp) ==
    IF rec.isVerified THEN rec
    ELSE [rec EXCEPT !.isVerified = TRUE,
                     !.verificationTimestamp = timestamp,
                     !.verifier = sender]

\* variant of the verification: the ecosystem type cleared along the way
VerifiedRecordRetyped(rec, sender, timestamp) ==
    [rec EXCEPT !.isVerified = TRUE,
                !.verificationTimestamp = timestamp,
                !.verifier = sender,
                !.ecosystemType = ""]

\* the three field writes of verifyBiodiversityData
VerifiedRecord(rec, sender, timestamp) ==
    [rec EXCEPT !.isVerified = TRUE,
                !.verificationTimestamp = timestamp,
                !.verifier = sender]

\* return landParcels[tokenId]
getBiodiversityData(tokenId) == landParcels[tokenId]

\* the snapshot a transaction starts from
Snapshot == [landParcels |-> landParcels, log |-> log]

\* msg.sender of a transaction whose code does not read it
NotRead == "-"

\* the record of a transaction and its outcome: ret is the list of values
\* returned (empty on revert), error the revert reason, calls the message
\* calls made to other contracts with the answers they got
Outcome(op, args, sender, time, status, error, ret, calls) ==
    [op |-> op, args |-> args, sender |-> sender, time |-> time,
     status |-> status, error |-> error, ret |-> ret, calls |-> calls]

\* ------------------------------------------- the call to the token service
\* a message call to the interface: who is called, which function, the
\* arguments as passed, and what came back
ExternalCall(to, fn, args, resp) ==
    [to |-> to, fn |-> fn, args |-> args, resp |-> resp]

\* the call completed and its return data holds an int
CallCompleted(resp) == resp.success /\ Len(resp.data) >= 1

\* variant of the interface call: a failed call answered for with
\* INVALID_TRANSACTION instead of reverting
InterfaceCallSubstituting(resp) ==
    IF ~resp.success THEN [fault |-> NoError, value |-> <<INVALID_TRANSACTION>>]
    ELSE IF Len(resp.data) < 1 THEN [fault |-> DecodeFault, value |-> <<>>]
    ELSE [fault |-> NoError, value |-> <<resp.data[1]>>]

\* variant of the interface call: the fault of a failed call swallowed and
\* the zero value of int handed on
InterfaceCallSwallowing(resp) ==
    IF ~resp.success THEN [fault |-> NoError, value |-> <<0>>]
    ELSE IF Len(resp.data) < 1 THEN [fault |-> DecodeFault, value |-> <<>>]
    ELSE [fault |-> NoError, value |-> <<resp.data[1]>>]

\* int response = tokenService.f(...): a failed call or undecodable return
\* data reverts the caller, otherwise the first word is the int returned
InterfaceCall(resp) ==
    IF ~resp.success THEN [fault |-> CallFault, value |-> <<>>]
    ELSE IF Len(resp.data) < 1 THEN [fault |-> DecodeFault, value |-> <<>>]
    ELSE [fault |-> NoError, value |-> <<resp.data[1]>>]

\* variant of the response check: only INVALID_TRANSACTION rejected
ResponseAcceptedUnlessInvalid(response) == response # INVALID_TRANSACTION

\* if (response != HederaResponseCodes.SUCCESS) revert(...)
ResponseAccepted(response) == response = SUCCESS

\* variant of the end of a token operation: a rejected or failed call made
\* a second time
TokenOutcomeRetrying(op, args, call, message) ==
    LET r == InterfaceCall(call.resp) IN
    IF r.fault # NoError
    THEN Outcome(op, args, NotRead, now, "revert", r.fault, <<>>, <<call, call>>)
    ELSE IF ~ResponseAccepted(r.value[1])
    THEN Outcome(op, args, NotRead, now, "revert", message, <<>>, <<call, call>>)
    ELSE Outcome(op, args, NotRead, now, "ok", NoError, <<r.value[1]>>, <<call>>)

\* the end of associateToken / transferToken after the external call
TokenOutcome(op, args, call, message) ==
    LET r == InterfaceCall(call.resp) IN
    IF r.fault # NoError
    THEN Outcome(op, args, NotRead, now, "revert", r.fault, <<>>, <<call>>)
    ELSE IF ~ResponseAccepted(r.value[1])
    THEN Outcome(op, args, NotRead, now, "revert", message, <<>>, <<call>>)
    ELSE Outcome(op, args, NotRead, now, "ok", NoError, <<r.value[1]>>, <<call>>)

\* ------------------------- the defensive adapter (abstract HederaTokenService)
\* precompileAddress(): address(0x167)
precompileAddress == 359

\* the five codes the HederaResponseCodes library names
ResponseVocabulary ==
    {SUCCESS, INVALID_TRANSACTION, TOKEN_NOT_ASSOCIATED_TO_ACCOUNT,
     INSUFFICIENT_ACCOUNT_BALANCE, INSUFFICIENT_TOKEN_BALANCE}

\* variants of the adapter: a failed call answered with code 21, a failed call
\* reverting the adapter, every code but SUCCESS turned into INVALID_TRANSACTION
LowLevelCallUnknown(resp) ==
    IF resp.success
    THEN IF Len(resp.data) < 1 THEN [fault |-> DecodeFault, value |-> <<>>]
         ELSE [fault |-> NoError, value |-> <<resp.data[1]>>]
    ELSE [fault |-> NoError, value |-> <<21>>]

LowLevelCallPropagating(resp) ==
    IF resp.success
    THEN IF Len(resp.data) < 1 THEN [fault |-> DecodeFault, value |-> <<>>]
         ELSE [fault |-> NoError, value |-> <<resp.data[1]>>]
    ELSE [fault |-> CallFault, value |-> <<>>]

LowLevelCallClamped(resp) ==
    IF resp.success
    THEN IF Len(resp.data) < 1 THEN [fault |-> DecodeFault, value |-> <<>>]
         ELSE IF resp.data[1] = SUCCESS THEN [fault |-> NoError, value |-> <<SUCCESS>>]
         ELSE [fault |-> NoError, value |-> <<INVALID_TRANSACTION>>]
    ELSE [fault |-> NoError, value |-> <<INVALID_TRANSACTION>>]

\* (bool success, bytes memory result) = precompileAddress().call(...);
\* if (success) return abi.decode(result, (int)); else return INVALID_TRANSACTION:
\* abi.decode reverts on return data shorter than one word
LowLevelCall(resp) ==
    IF resp.success
    THEN IF Len(resp.data) < 1 THEN [fault |-> DecodeFault, value |-> <<>>]
         ELSE [fault |-> NoError, value |-> <<resp.data[1]>>]
    ELSE [fault |-> NoError, value |-> <<INVALID_TRANSACTION>>]

\* the end of the adapter's associateToken / transferToken
AdapterOutcome(op, args, call) ==
    LET r == LowLevelCall(call.resp) IN
    IF r.fault # NoError
    THEN Outcome(op, args, NotRead, now, "revert", r.fault, <<>>, <<call>>)
    ELSE Outcome(op, args, NotRead, now, "ok", NoError, r.value, <<call>>)

\* ------------------------------------------------- the demo script's names
\* const USE_DEPLOYED_CONTRACT = true
USE_DEPLOYED_CONTRACT == TRUE

\* the same constant in the variant of the script that deploys with ethers
USE_DEPLOYED_CONTRACT_ETHERS == FALSE

\* the two variants of the script
Scripts == {"sdk", "ethers"}

UseDeployedContract(script) ==
    IF script = "ethers" THEN USE_DEPLOYED_CONTRACT_ETHERS ELSE USE_DEPLOYED_CONTRACT

\* what main() finds in process.env: OPERATOR_ID set, OPERATOR_KEY set, and
\* whether PrivateKey.fromString accepts the key
Environment(hasOperatorId, hasOperatorKey, keyParses) ==
    [operatorId |-> hasOperatorId, operatorKey |-> hasOperatorKey,
     keyParses |-> keyParses]

DEPLOYED_CONTRACT_ID == "0.0.5847080"

\* the ID convertAddressToContractId computes from the last hex digits of the
\* deployed address when that is not the contract's ID
MisconvertedContractId == "0.0.contractNum"

\* the contract ID of a contract the script deployed itself
NewContractId == "contractCreateReceipt.contractId"

\* ContractId.fromString("0.0.1234567"), the placeholder for simulation
PlaceholderContractId == "0.0.1234567"

\* the ID of a token the script created, and the placeholder object it uses
\* when the creation failed
NewTokenId == "tokenCreateRx.tokenId"

PlaceholderTokenId == "0000000000000000000000000000000000001234"

NewTopicId == "topicCreateRx.topicId"

PlaceholderTopicId == "0.0.7890123"

\* a local of main() not yet assigned
NotSet == "undefined"

\* the score and type the script passes to addBiodiversityData
DemoScore == 75

DemoEcosystemType == "Tropical Rainforest"

\* the account the script signs with
DemoOperator == "A"

\* tokenId.toSolidityAddress(): the parcel the contract calls name; the created
\* token and the placeholder are different addresses
toSolidityAddress(tokenId) == IF tokenId = PlaceholderTokenId THEN "Q" ELSE "P"

\* the lines of output that tell the modes and the end of a run apart
SimulationBanner == "SIMULATION MODE"

ExitingLine == "Exiting..."

CompletedLine == "----- DEMO COMPLETED SUCCESSFULLY -----"

\* ------------------------------------------------------------------- Init
\* the state the constructor leaves
Init ==
    /\ landParcels = [t \in TokenIds |-> ZeroRecord]
    /\ tokenService = PRECOMPILED_TOKEN_SERVICE
    /\ log = <<>>
    /\ now = 1
    /\ pre = [landParcels |-> [t \in TokenIds |-> ZeroRecord], log |-> <<>>]
    /\ last = Outcome("constructor", <<>>, NotRead, 1, "ok", NoError, <<>>, <<>>)
    /\ demo = [pc |-> "setup", network |-> TRUE, contractId |-> NotSet,
               tokenId |-> NotSet, topicId |-> NotSet, attempts |-> <<>>,
               out |-> <<>>, script |-> NotSet, env |-> Environment(FALSE, FALSE, FALSE)]

\* ---------------------------------------------------------------- actions
\* variant of the write: the record stored before the score is checked and
\* left in place when the check fails
AddBiodiversityDataWriteFirst(tokenId, biodiversityScore, ecosystemType) ==
    /\ pre' = Snapshot
    /\ UNCHANGED <<tokenService, now>>
    /\ landParcels' = [landParcels EXCEPT ![tokenId] =
                          NewRecord(@, biodiversityScore, ecosystemType)]
    /\ IF ~ScoreInRange(biodiversityScore)
       THEN /\ UNCHANGED log
            /\ last' = Outcome("add", <<tokenId, biodiversityScore, ecosystemType>>,
                               NotRead, now, "revert", ScoreError, <<>>, <<>>)
       ELSE /\ Len(log) < MaxLog
            /\ log' = Append(log, BiodiversityDataAdded(tokenId, biodiversityScore,
                                                        ecosystemType))
            /\ last' = Outcome("add", <<tokenId, biodiversityScore, ecosystemType>>,
                               NotRead, now, "ok", NoError, <<>>, <<>>)

\* variant of the write: the record stored under every identifier
AddBiodiversityDataEverywhere(tokenId, biodiversityScore, ecosystemType) ==
    /\ pre' = Snapshot
    /\ UNCHANGED <<tokenService, now>>
    /\ IF ~ScoreInRange(biodiversityScore)
       THEN /\ UNCHANGED <<landParcels, log>>
            /\ last' = Outcome("add", <<tokenId, biodiversityScore, ecosystemType>>,
                               NotRead, now, "revert", ScoreError, <<>>, <<>>)
       ELSE /\ Len(log) < MaxLog
            /\ landParcels' = [t \in TokenIds |->
                                  NewRecord(landParcels[t], biodiversityScore,
                                            ecosystemType)]
            /\ log' = Append(log, BiodiversityDataAdded(tokenId, biodiversityScore,
                                                        ecosystemType))
            /\ last' = Outcome("add", <<tokenId, biodiversityScore, ecosystemType>>,
                               NotRead, now, "ok", NoError, <<>>, <<>>)

\* addBiodiversityData(tokenId, biodiversityScore, ecosystemType)
AddBiodiversityData(tokenId, biodiversityScore, ecosystemType) ==
    /\ pre' = Snapshot
    /\ UNCHANGED <<tokenService, now>>
    /\ IF ~ScoreInRange(biodiversityScore)
       THEN /\ UNCHANGED <<landParcels, log>>
            /\ last' = Outcome("add", <<tokenId, biodiversityScore, ecosystemType>>,
                               NotRead, now, "revert", ScoreError, <<>>, <<>>)
       ELSE /\ Len(log) < MaxLog
            /\ landParcels' = [landParcels EXCEPT ![tokenId] =
                                  NewRecord(@, biodiversityScore, ecosystemType)]
            /\ log' = Append(log, BiodiversityDataAdded(tokenId, biodiversityScore,
                                                        ecosystemType))
            /\ last' = Outcome("add", <<tokenId, biodiversityScore, ecosystemType>>,
                               NotRead, now, "ok", NoError, <<>>, <<>>)

\* variant of the verification: only the sender "A" admitted
VerifyBiodiversityDataAuthorized(sender, time, tokenId) ==
    /\ now' = time
    /\ pre' = Snapshot
    /\ UNCHANGED tokenService
    /\ IF ~DataExists(landParcels[tokenId]) \/ sender # "A"
       THEN /\ UNCHANGED <<landParcels, log>>
            /\ last' = Outcome("verify", <<tokenId>>, sender, time,
                               "revert", NoDataError, <<>>, <<>>)
       ELSE /\ Len(log) < MaxLog
            /\ landParcels' = [landParcels EXCEPT ![tokenId] =
                                  VerifiedRecord(@, sender, time)]
            /\ log' = Append(log, BiodiversityDataVerified(tokenId, sender, time))
            /\ last' = Outcome("verify", <<tokenId>>, sender, time,
                               "ok", NoError, <<>>, <<>>)

\* variant of the verification: the event emitted for a refused attempt too
VerifyBiodiversityDataLoggingAttempts(sender, time, tokenId) ==
    /\ now' = time
    /\ pre' = Snapshot
    /\ UNCHANGED tokenService
    /\ Len(log) < MaxLog
    /\ log' = Append(log, BiodiversityDataVerified(tokenId, sender, time))
    /\ IF ~DataExists(landParcels[tokenId])
       THEN /\ UNCHANGED landParcels
            /\ last' = Outcome("verify", <<tokenId>>, sender, time,
                               "revert", NoDataError, <<>>, <<>>)
       ELSE /\ landParcels' = [landParcels EXCEPT ![tokenId] =
                                  VerifiedRecord(@, sender, time)]
            /\ last' = Outcome("verify", <<tokenId>>, sender, time,
                               "ok", NoError, <<>>, <<>>)

\* verifyBiodiversityData(tokenId), sent by sender in a block stamped time
VerifyBiodiversityData(sender, time, tokenId) ==
    /\ now' = time
    /\ pre' = Snapshot
    /\ UNCHANGED tokenService
    /\ IF ~DataExists(landParcels[tokenId])
       THEN /\ UNCHANGED <<landParcels, log>>
            /\ last' = Outcome("verify", <<tokenId>>, sender, time,
                               "revert", NoDataError, <<>>, <<>>)
       ELSE /\ Len(log) < MaxLog
            /\ landParcels' = [landParcels EXCEPT ![tokenId] =
                                  VerifiedRecord(@, sender, time)]
            /\ log' = Append(log, BiodiversityDataVerified(tokenId, sender, time))
            /\ last' = Outcome("verify", <<tokenId>>, sender, time,
                               "ok", NoError, <<>>, <<>>)

\* variant of the read: an identifier without data refused
GetBiodiversityDataStrict(tokenId) ==
    /\ pre' = Snapshot
    /\ UNCHANGED <<landParcels, tokenService, log, now>>
    /\ last' = IF DataExists(landParcels[tokenId])
               THEN Outcome("get", <<tokenId>>, NotRead, now, "ok", NoError,
                            <<getBiodiversityData(tokenId)>>, <<>>)
               ELSE Outcome("get", <<tokenId>>, NotRead, now, "revert", NoDataError,
                            <<>>, <<>>)

\* getBiodiversityData(tokenId): a view call
GetBiodiversityData(tokenId) ==
    /\ pre' = Snapshot
    /\ UNCHANGED <<landParcels, tokenService, log, now>>
    /\ last' = Outcome("get", <<tokenId>>, NotRead, now, "ok", NoError,
                       <<getBiodiversityData(tokenId)>>, <<>>)

\* variant of the association: an event emitted once the service accepted
AssociateTokenLogging(accountId, tokenId, resp) ==
    LET out == TokenOutcome("associate", <<accountId, tokenId>>,
                            ExternalCall(tokenService, "associateToken",
                                         <<accountId, tokenId>>, resp),
                            AssociateError)
    IN  /\ pre' = Snapshot
        /\ UNCHANGED <<landParcels, tokenService, now>>
        /\ last' = out
        /\ log' = IF out.status = "ok" /\ Len(log) < MaxLog
                  THEN Append(log, [event |-> "TokenAssociated", tokenId |-> tokenId])
                  ELSE log

\* associateToken(accountId, tokenId); resp is the service's answer
AssociateToken(accountId, tokenId, resp) ==
    /\ pre' = Snapshot
    /\ UNCHANGED <<landParcels, tokenService, log, now>>
    /\ last' = TokenOutcome("associate", <<accountId, tokenId>>,
                            ExternalCall(tokenService, "associateToken",
                                         <<accountId, tokenId>>, resp),
                            AssociateError)

\* variant of the transfer: the parcel's verification cleared after the call
TransferTokenClearing(tokenId, fromAccountId, toAccountId, amount, resp) ==
    /\ pre' = Snapshot
    /\ UNCHANGED <<tokenService, log, now>>
    /\ landParcels' = [landParcels EXCEPT ![tokenId].isVerified = FALSE,
                                          ![tokenId].verificationTimestamp = 0,
                                          ![tokenId].verifier = ZeroAddress]
    /\ last' = TokenOutcome("transfer",
                            <<tokenId, fromAccountId, toAccountId, amount>>,
                            ExternalCall(tokenService, "transferToken",
                                         <<tokenId, fromAccountId, toAccountId, amount>>,
                                         resp),
                            TransferError)

\* variant of the transfer: the amount and the two accounts checked before
\* the service is called
TransferTokenValidating(tokenId, fromAccountId, toAccountId, amount, resp) ==
    /\ pre' = Snapshot
    /\ UNCHANGED <<landParcels, tokenService, log, now>>
    /\ IF amount <= 0 \/ fromAccountId = toAccountId
       THEN last' = Outcome("transfer",
                            <<tokenId, fromAccountId, toAccountId, amount>>,
                            NotRead, now, "revert", TransferError, <<>>, <<>>)
       ELSE last' = TokenOutcome("transfer",
                            <<tokenId, fromAccountId, toAccountId, amount>>,
                            ExternalCall(tokenService, "transferToken",
                                         <<tokenId, fromAccountId, toAccountId, amount>>,
                                         resp),
                            TransferError)

\* transferToken(tokenId, fromAccountId, toAccountId, amount)
TransferToken(tokenId, fromAccountId, toAccountId, amount, resp) ==
    /\ pre' = Snapshot
    /\ UNCHANGED <<landParcels, tokenService, log, now>>
    /\ last' = TokenOutcome("transfer",
                            <<tokenId, fromAccountId, toAccountId, amount>>,
                            ExternalCall(tokenService, "transferToken",
                                         <<tokenId, fromAccountId, toAccountId, amount>>,
                                         resp),
                            TransferError)

\* ------------------------------------------ a service that calls back
\* msg.sender of a call the token service makes: its own address
ServiceSender == "0x167"

\* what the service does with the contract while it holds control: nothing,
\* or one call of addBiodiversityData or of verifyBiodiversityData
Callback(op, tokenId, biodiversityScore, ecosystemType) ==
    [op |-> op, tokenId |-> tokenId, biodiversityScore |-> biodiversityScore,
     ecosystemType |-> ecosystemType]

NoCallback == Callback("none", "P", 0, "")

Callbacks(ids, scores, ecos) ==
    {NoCallback}
    \cup {Callback("add", t, sc, e) : t \in ids, sc \in scores, e \in ecos}
    \cup {Callback("verify", t, 0, "") : t \in ids}

\* mapping and log once the nested call has run on snap: the nested call is
\* the public function itself, with its require and its writes
CallbackEffect(snap, cb, timestamp) ==
    IF cb.op = "add" /\ ScoreInRange(cb.biodiversityScore)
    THEN [landParcels |-> [snap.landParcels EXCEPT ![cb.tokenId] =
                              NewRecord(@, cb.biodiversityScore, cb.ecosystemType)],
          log |-> Append(snap.log, BiodiversityDataAdded(cb.tokenId,
                                       cb.biodiversityScore, cb.ecosystemType))]
    ELSE IF cb.op = "verify" /\ DataExists(snap.landParcels[cb.tokenId])
    THEN [landParcels |-> [snap.landParcels EXCEPT ![cb.tokenId] =
                              VerifiedRecord(@, ServiceSender, timestamp)],
          log |-> Append(snap.log, BiodiversityDataVerified(cb.tokenId, ServiceSender,
                                                          timestamp))]
    ELSE snap

\* variant of the end of the transaction: the nested call's writes kept
\* whatever the outer operation's end
CommittedKeepingCallback(status, before, nested) == nested

\* mapping and log at the end of the transaction: a revert of the outer
\* operation undoes the writes of every call nested in it
Committed(status, before, nested) ==
    IF status = "ok" THEN nested ELSE before

\* associateToken(accountId, tokenId) with a service that may call back
ReentrantAssociateToken(accountId, tokenId, resp, cb) ==
    LET nested == CallbackEffect(Snapshot, cb, now)
        out == TokenOutcome("associate", <<accountId, tokenId>>,
                            ExternalCall(tokenService, "associateToken",
                                         <<accountId, tokenId>>, resp)
                                @@ [callback |-> cb],
                            AssociateError)
        end == Committed(out.status, Snapshot, nested)
    IN /\ Len(nested.log) <= MaxLog
       /\ pre' = Snapshot
       /\ UNCHANGED <<tokenService, now>>
       /\ landParcels' = end.landParcels
       /\ log' = end.log
       /\ last' = out

\* transferToken(tokenId, fromAccountId, toAccountId, amount) with a service
\* that may call back
ReentrantTransferToken(tokenId, fromAccountId, toAccountId, amount, resp, cb) ==
    LET nested == CallbackEffect(Snapshot, cb, now)
        out == TokenOutcome("transfer",
                            <<tokenId, fromAccountId, toAccountId, amount>>,
                            ExternalCall(tokenService, "transferToken",
                                         <<tokenId, fromAccountId, toAccountId, amount>>,
                                         resp)
                                @@ [callback |-> cb],
                            TransferError)
        end == Committed(out.status, Snapshot, nested)
    IN /\ Len(nested.log) <= MaxLog
       /\ pre' = Snapshot
       /\ UNCHANGED <<tokenService, now>>
       /\ landParcels' = end.landParcels
       /\ log' = end.log
       /\ last' = out

\* HederaTokenService.associateToken(account, token), called by a contract
\* that inherits the adapter
AdapterAssociateToken(account, token, resp) ==
    /\ pre' = Snapshot
    /\ UNCHANGED <<landParcels, tokenService, log, now>>
    /\ last' = AdapterOutcome("adapter.associate", <<account, token>>,
                              ExternalCall(precompileAddress, "associateToken",
                                           <<account, token>>, resp))

\* HederaTokenService.transferToken(token, from, to, amount)
AdapterTransferToken(token, from, to, amount, resp) ==
    /\ pre' = Snapshot
    /\ UNCHANGED <<landParcels, tokenService, log, now>>
    /\ last' = AdapterOutcome("adapter.transfer", <<token, from, to, amount>>,
                              ExternalCall(precompileAddress, "transferToken",
                                           <<token, from, to, amount>>, resp))

\* one transaction, its inputs drawn from the given sets
NextOver(ids, tokens, scores, ecos, accounts, amounts, resps) ==
    \/ \E tokenId \in ids, s \in scores, e \in ecos :
           AddBiodiversityData(tokenId, s, e) /\ UNCHANGED demo
    \/ \E sender \in Senders, time \in BlockTimes(now), tokenId \in ids :
           VerifyBiodiversityData(sender, time, tokenId) /\ UNCHANGED demo
    \/ \E tokenId \in ids : GetBiodiversityData(tokenId) /\ UNCHANGED demo
    \/ \E accountId \in accounts, tokenId \in tokens, resp \in resps :
           AssociateToken(accountId, tokenId, resp) /\ UNCHANGED demo
    \/ \E tokenId \in tokens, from \in accounts, to \in accounts, amount \in amounts,
          resp \in resps :
           TransferToken(tokenId, from, to, amount, resp) /\ UNCHANGED demo

\* the answers of the service that differ in kind: a failed call, empty return
\* data, SUCCESS and one rejection
ResponseKinds ==
    {r \in ServiceResponses : r.data \in {<<>>, <<SUCCESS>>, <<INVALID_TRANSACTION>>}}

\* the registry under every input; the token operations on one token, one
\* account and one amount
Next == NextOver(TokenIds, {"P"}, Scores, EcosystemTypes, {"acc1"}, {1}, ResponseKinds)

Spec == Init /\ [][Next]_vars

\* the token operations under every input; the registry on one parcel with
\* one valid score and one ecosystem type
TokenNext ==
    NextOver({"P"}, TokenIds, {MAX_SCORE}, {"wetland"}, Accounts, Amounts,
             ServiceResponses)

TokenSpec == Init /\ [][TokenNext]_vars

\* one use of the defensive adapter, under every input
AdapterNext ==
    \/ \E account \in Accounts, token \in TokenIds, resp \in ServiceResponses :
           AdapterAssociateToken(account, token, resp) /\ UNCHANGED demo
    \/ \E token \in TokenIds, from \in Accounts, to \in Accounts, amount \in Amounts,
          resp \in ServiceResponses :
           AdapterTransferToken(token, from, to, amount, resp) /\ UNCHANGED demo

AdapterSpec == Init /\ [][AdapterNext]_vars

\* the registry's writes and the token operations with a service that calls
\* back into the registry while it holds control
ReentrantNext ==
    \/ \E tokenId \in TokenIds :
           AddBiodiversityData(tokenId, MAX_SCORE, DemoEcosystemType) /\ UNCHANGED demo
    \/ \E time \in BlockTimes(now), tokenId \in TokenIds :
           VerifyBiodiversityData("A", time, tokenId) /\ UNCHANGED demo
    \/ \E resp \in ResponseKinds, cb \in Callbacks({"P"}, {MAX_SCORE, 101}, {"wetland"}) :
           ReentrantAssociateToken("acc1", "P", resp, cb) /\ UNCHANGED demo
    \/ \E resp \in ResponseKinds, cb \in Callbacks({"P"}, {MAX_SCORE, 101}, {"wetland"}) :
           ReentrantTransferToken("P", "acc1", "acc2", 1, resp, cb) /\ UNCHANGED demo

ReentrantSpec == Init /\ [][ReentrantNext]_vars

\* ---------------------------------------------------- the demo script main()
\* a step of main() tried, and whether it went through
Attempt(step, ok) == [step |-> step, ok |-> ok]

\* variant of Step 1: a run without usable credentials goes on in simulation
\* mode
DemoSetupSimulating(script, hasOperatorId, hasOperatorKey, keyParses, connects) ==
    /\ demo.pc = "setup"
    /\ UNCHANGED contractVars
    /\ LET run == [demo EXCEPT !.script = script,
                               !.env = Environment(hasOperatorId, hasOperatorKey,
                                                   keyParses)]
       IN IF connects /\ hasOperatorId /\ hasOperatorKey /\ keyParses
          THEN demo' = [run EXCEPT !.pc = "deploy"]
          ELSE demo' = [run EXCEPT !.pc = "deploy", !.network = FALSE,
                                   !.out = Append(@, SimulationBanner)]

\* Step 1, client setup, the same in both variants: the credentials read from
\* the environment, the key parsed, the client created and the connection
\* tested
DemoSetup(script, hasOperatorId, hasOperatorKey, keyParses, connects) ==
    /\ demo.pc = "setup"
    /\ UNCHANGED contractVars
    /\ LET run == [demo EXCEPT !.script = script,
                               !.env = Environment(hasOperatorId, hasOperatorKey,
                                                   keyParses)]
       IN IF ~(hasOperatorId /\ hasOperatorKey) \/ ~keyParses
          THEN demo' = [run EXCEPT !.pc = "exited", !.out = Append(@, ExitingLine)]
          ELSE IF connects
          THEN demo' = [run EXCEPT !.pc = "deploy"]
          ELSE demo' = [run EXCEPT !.pc = "deploy", !.network = FALSE,
                                   !.out = Append(@, SimulationBanner)]

\* Step 2: the contract the rest of the run talks to
DemoDeploy(artifactLoads, fileCreated, contractCreated) ==
    /\ demo.pc = "deploy"
    /\ demo.script = "sdk"
    /\ UNCHANGED contractVars
    /\ IF UseDeployedContract(demo.script) /\ demo.network
       THEN demo' = [demo EXCEPT !.pc = "createToken",
                                 !.contractId = DEPLOYED_CONTRACT_ID]
       ELSE IF ~demo.network
       THEN demo' = [demo EXCEPT !.pc = "createToken",
                                 !.contractId = PlaceholderContractId]
       ELSE IF ~artifactLoads
       THEN demo' = [demo EXCEPT !.pc = "createToken",
                                 !.contractId = PlaceholderContractId]
       ELSE demo' = [demo EXCEPT
                !.pc = "createToken",
                !.contractId = IF fileCreated /\ contractCreated THEN NewContractId
                               ELSE PlaceholderContractId,
                !.attempts = Append(@, Attempt("deployContract",
                                               fileCreated /\ contractCreated))]

\* Step 2 of the ethers variant: one try around factory, deploy and the
\* conversion of the address to a contract ID
DemoDeployEthers(deployed, converts) ==
    /\ demo.pc = "deploy"
    /\ demo.script = "ethers"
    /\ UNCHANGED contractVars
    /\ IF UseDeployedContract(demo.script) /\ demo.network
       THEN demo' = [demo EXCEPT !.pc = "createToken",
                                 !.contractId = DEPLOYED_CONTRACT_ID]
       ELSE IF ~demo.network
       THEN demo' = [demo EXCEPT !.pc = "createToken",
                                 !.contractId = PlaceholderContractId]
       ELSE demo' = [demo EXCEPT
                !.pc = "createToken",
                !.contractId = IF ~deployed THEN PlaceholderContractId
                               ELSE IF converts THEN NewContractId
                               ELSE MisconvertedContractId,
                !.attempts = Append(@, Attempt("deployContract", deployed))]

\* Step 3: create the token; a failure is caught and the placeholder used
DemoCreateToken(ok) ==
    /\ demo.pc = "createToken"
    /\ UNCHANGED contractVars
    /\ demo' = [demo EXCEPT !.pc = "createTopic",
                            !.tokenId = IF ok THEN NewTokenId ELSE PlaceholderTokenId,
                            !.attempts = Append(@, Attempt("createToken", ok))]

\* variant of Step 4: a failure to create the topic ends the run
DemoCreateTopicOrExit(ok) ==
    /\ demo.pc = "createTopic"
    /\ UNCHANGED contractVars
    /\ demo' = [demo EXCEPT !.pc = IF ok THEN "registerParcel" ELSE "exited",
                            !.topicId = IF ok THEN NewTopicId ELSE PlaceholderTopicId,
                            !.attempts = Append(@, Attempt("createTopic", ok))]

\* Step 4: create the topic; a failure is caught and the placeholder used
DemoCreateTopic(ok) ==
    /\ demo.pc = "createTopic"
    /\ UNCHANGED contractVars
    /\ demo' = [demo EXCEPT !.pc = "registerParcel",
                            !.topicId = IF ok THEN NewTopicId ELSE PlaceholderTopicId,
                            !.attempts = Append(@, Attempt("createTopic", ok))]

\* Step 5: submit the land parcel to the topic; a failure is caught
DemoRegisterParcel(ok) ==
    /\ demo.pc = "registerParcel"
    /\ UNCHANGED contractVars
    /\ demo' = [demo EXCEPT !.pc = "addData",
                            !.attempts = Append(@, Attempt("registerParcel", ok))]

\* the contract ID names a BiodiversityLandParcel, not the placeholder
IsRegistry(contractId) == contractId \in {DEPLOYED_CONTRACT_ID, NewContractId}

\* Step 6: addBiodiversityData(token address, 75, "Tropical Rainforest") sent
\* to the contract; reached tells whether the transaction got there
DemoAddData(reached) ==
    /\ demo.pc = "addData"
    /\ IF reached /\ IsRegistry(demo.contractId)
       THEN AddBiodiversityData(toSolidityAddress(demo.tokenId), DemoScore,
                                DemoEcosystemType)
       ELSE UNCHANGED contractVars
    /\ demo' = [demo EXCEPT
           !.pc = "verifyData",
           !.attempts = Append(@, Attempt("addData",
                             IF reached /\ IsRegistry(demo.contractId)
                             THEN last'.status = "ok" ELSE reached))]

\* Step 7: verifyBiodiversityData(token address) sent to the contract
DemoVerifyData(reached, time) ==
    /\ demo.pc = "verifyData"
    /\ IF reached /\ IsRegistry(demo.contractId)
       THEN VerifyBiodiversityData(DemoOperator, time, toSolidityAddress(demo.tokenId))
       ELSE UNCHANGED contractVars
    /\ demo' = [demo EXCEPT
           !.pc = "recordVerification",
           !.attempts = Append(@, Attempt("verifyData",
                             IF reached /\ IsRegistry(demo.contractId)
                             THEN last'.status = "ok" ELSE reached))]

\* Step 8: submit the verification message to the topic; a failure is caught
DemoRecordVerification(ok) ==
    /\ demo.pc = "recordVerification"
    /\ UNCHANGED contractVars
    /\ demo' = [demo EXCEPT !.pc = "summary",
                            !.attempts = Append(@, Attempt("recordVerification", ok))]

\* the closing lines of main()
DemoSummary ==
    /\ demo.pc = "summary"
    /\ UNCHANGED contractVars
    /\ demo' = [demo EXCEPT !.pc = "done", !.out = Append(@, CompletedLine)]

\* one run of main(), under every environment and every outcome of its steps
DemoNext ==
    \/ \E script \in Scripts, hasOperatorId \in BOOLEAN, hasOperatorKey \in BOOLEAN,
          keyParses \in BOOLEAN, connects \in BOOLEAN :
           DemoSetup(script, hasOperatorId, hasOperatorKey, keyParses, connects)
    \/ \E artifactLoads \in BOOLEAN, fileCreated \in BOOLEAN, contractCreated \in BOOLEAN :
           DemoDeploy(artifactLoads, fileCreated, contractCreated)
    \/ \E deployed \in BOOLEAN, converts \in BOOLEAN : DemoDeployEthers(deployed, converts)
    \/ \E ok \in BOOLEAN : DemoCreateToken(ok)
    \/ \E ok \in BOOLEAN : DemoCreateTopic(ok)
    \/ \E ok \in BOOLEAN : DemoRegisterParcel(ok)
    \/ \E reached \in BOOLEAN : DemoAddData(reached)
    \/ \E reached \in BOOLEAN, time \in BlockTimes(now) : DemoVerifyData(reached, time)
    \/ \E ok \in BOOLEAN : DemoRecordVerification(ok)
    \/ DemoSummary

DemoSpec == Init /\ [][DemoNext]_vars

\* main() is one sequential async function: every awaited call settles, so
\* the run goes on until it returns
FairDemoSpec == DemoSpec /\ WF_vars(DemoNext)

\* ================================================================ properties
\* the parcel a registry transaction names
LastId == last.args[1]

IsRegistryCall(op) == last.op = op

IsTokenCall == last.op \in {"associate", "transfer"}

\* position of the latest BiodiversityDataAdded event for tokenId in lg, 0 if none
RECURSIVE LatestAdded(_, _, _)
LatestAdded(lg, tokenId, i) ==
    IF i = 0 THEN 0
    ELSE IF lg[i].event = "BiodiversityDataAdded" /\ lg[i].tokenId = tokenId THEN i
    ELSE LatestAdded(lg, tokenId, i - 1)

\* tokenId was never written, or its most recent committed write had score 0
NeverWrittenOrZero(lg, tokenId) ==
    LET i == LatestAdded(lg, tokenId, Len(lg)) IN
    i = 0 \/ lg[i].biodiversityScore = 0

\* ---- C1: in every reachable state every record is verified exactly when it
\* carries a positive verification timestamp and a non-null verifier
C1_VerifiedIffStamped ==
    \A t \in TokenIds :
        landParcels[t].isVerified <=>
            (landParcels[t].verificationTimestamp > 0 /\ landParcels[t].verifier # ZeroAddress)

\* a verify has just committed; one parcel is verified, another written but not
C1_Witness ==
    /\ IsRegistryCall("verify") /\ last.status = "ok"
    /\ \E t, u \in TokenIds :
          /\ landParcels[t].isVerified
          /\ ~landParcels[u].isVerified /\ DataExists(landParcels[u])

\* ---- C2: an add with a score in 0..100 succeeds and the record read back right
\* after it is exactly {score, type, unverified, timestamp 0, null verifier},
\* whatever was stored before
C2_AddThenGet ==
    (IsRegistryCall("add") /\ last.args[2] \in 0..MAX_SCORE) =>
        /\ last.status = "ok"
        /\ getBiodiversityData(LastId) =
              [biodiversityScore |-> last.args[2], ecosystemType |-> last.args[3],
               isVerified |-> FALSE, verificationTimestamp |-> 0,
               verifier |-> ZeroAddress]

\* an add of the top score has replaced a verified record of another type
C2_Witness ==
    /\ IsRegistryCall("add") /\ last.status = "ok" /\ last.args[2] = MAX_SCORE
    /\ pre.landParcels[LastId].isVerified
    /\ pre.landParcels[LastId].ecosystemType # last.args[3]

\* ---- C3: an add with a score above 100 fails with the range error and leaves
\* the whole mapping as it was
C3_AddOutOfRange ==
    (IsRegistryCall("add") /\ last.args[2] > MAX_SCORE) =>
        /\ last.status = "revert" /\ last.error = ScoreError
        /\ landParcels = pre.landParcels

\* an out-of-range add was tried on a verified parcel while another is absent
C3_Witness ==
    /\ IsRegistryCall("add") /\ last.args[2] > MAX_SCORE
    /\ landParcels[LastId].isVerified
    /\ \E u \in TokenIds : landParcels[u] = ZeroRecord

\* ---- C4: a verify of a parcel never written, or last written with score 0,
\* fails with the no-data error and leaves its three verification fields alone
C4_VerifyMissing ==
    (IsRegistryCall("verify") /\ NeverWrittenOrZero(pre.log, LastId)) =>
        /\ last.status = "revert" /\ last.error = NoDataError
        /\ landParcels[LastId].isVerified = pre.landParcels[LastId].isVerified
        /\ landParcels[LastId].verificationTimestamp =
              pre.landParcels[LastId].verificationTimestamp
        /\ landParcels[LastId].verifier = pre.landParcels[LastId].verifier

\* a verify was tried on a parcel whose latest write, after an earlier
\* non-zero one, had score 0
C4_Witness ==
    /\ IsRegistryCall("verify") /\ last.status = "revert"
    /\ LatestAdded(pre.log, LastId, Len(pre.log)) > 1
    /\ \E i \in 1..Len(pre.log) :
          /\ pre.log[i].event = "BiodiversityDataAdded"
          /\ pre.log[i].tokenId = LastId
          /\ pre.log[i].biodiversityScore > 0

\* ---- C5: add(P, s, e) with s in 1..100 followed by verify(P) by A at T leaves
\* {s, e, verified, T, A} to be read back
C5_AddVerifyGet ==
    (/\ IsRegistryCall("verify")
     /\ Len(pre.log) >= 1
     /\ pre.log[Len(pre.log)].event = "BiodiversityDataAdded"
     /\ pre.log[Len(pre.log)].tokenId = LastId
     /\ pre.log[Len(pre.log)].biodiversityScore \in 1..MAX_SCORE) =>
        /\ last.status = "ok"
        /\ getBiodiversityData(LastId) =
              [biodiversityScore |-> pre.log[Len(pre.log)].biodiversityScore,
               ecosystemType |-> pre.log[Len(pre.log)].ecosystemType,
               isVerified |-> TRUE, verificationTimestamp |-> last.time,
               verifier |-> last.sender]

\* the verify came right after the add of its parcel, in a later block
C5_Witness ==
    /\ IsRegistryCall("verify") /\ last.status = "ok"
    /\ Len(pre.log) >= 1
    /\ pre.log[Len(pre.log)] =
          BiodiversityDataAdded(LastId, MAX_SCORE, "Tropical Rainforest")
    /\ last.time > 1

\* ---- C6: a committed add on a verified parcel leaves it unverified with
\* timestamp 0 and null verifier
C6_AddResetsVerification ==
    (IsRegistryCall("add") /\ last.status = "ok" /\ pre.landParcels[LastId].isVerified) =>
        /\ ~landParcels[LastId].isVerified
        /\ landParcels[LastId].verificationTimestamp = 0
        /\ landParcels[LastId].verifier = ZeroAddress

\* an add has overwritten a verified parcel
C6_Witness ==
    /\ IsRegistryCall("add") /\ last.status = "ok"
    /\ pre.landParcels[LastId].isVerified
    /\ pre.landParcels[LastId].verificationTimestamp > 0

\* ---- C7: a second verify of a verified parcel by another actor or at another
\* time succeeds and the record holds the second call's actor and time only
C7_ReVerify ==
    (/\ IsRegistryCall("verify")
     /\ pre.landParcels[LastId].isVerified
     /\ \/ last.sender # pre.landParcels[LastId].verifier
        \/ last.time # pre.landParcels[LastId].verificationTimestamp) =>
        /\ last.status = "ok"
        /\ landParcels[LastId].isVerified
        /\ landParcels[LastId].verifier = last.sender
        /\ landParcels[LastId].verificationTimestamp = last.time

\* the second verify came from another sender in a later block
C7_Witness ==
    /\ IsRegistryCall("verify") /\ last.status = "ok"
    /\ pre.landParcels[LastId].isVerified
    /\ last.sender # pre.landParcels[LastId].verifier
    /\ last.time # pre.landParcels[LastId].verificationTimestamp

\* ---- C8: in every reachable state every record, written or not, has a score
\* in 0..100
C8_ScoreInBounds ==
    \A t \in TokenIds :
        landParcels[t].biodiversityScore >= 0 /\ landParcels[t].biodiversityScore <= MAX_SCORE

\* an out-of-range add has just been refused; one parcel holds the top score
\* and another was never written
C8_Witness ==
    /\ IsRegistryCall("add") /\ last.status = "revert"
    /\ \E t, u \in TokenIds :
          /\ landParcels[t].biodiversityScore = MAX_SCORE
          /\ LatestAdded(log, u, Len(log)) = 0

\* ---- C9: associateToken and transferToken succeed exactly when the external
\* call completes with decoded code SUCCESS, and then return SUCCESS
C9_SuccessIffSuccessCode ==
    IsTokenCall =>
        LET resp == last.calls[1].resp IN
        /\ last.status = "ok" <=> (CallCompleted(resp) /\ resp.data[1] = SUCCESS)
        /\ last.status = "ok" => last.ret = <<SUCCESS>>

\* a transfer has returned after the service answered SUCCESS
C9_Witness ==
    /\ last.op = "transfer" /\ last.status = "ok"
    /\ last.calls[1].resp = [success |-> TRUE, data |-> <<SUCCESS>>]

\* ---- C10: when the service answers a code c other than SUCCESS, the failure
\* the token operation reports to its caller carries the code c
C10_FailureCarriesCode ==
    (/\ IsTokenCall
     /\ CallCompleted(last.calls[1].resp)
     /\ last.calls[1].resp.data[1] # SUCCESS) =>
        /\ last.status = "revert"
        /\ last.ret = <<last.calls[1].resp.data[1]>>

\* the revert reason a token operation gives for a rejected response
RejectionMessage == IF last.op = "associate" THEN AssociateError ELSE TransferError

\* ---- C11 (as claimed): when the external call of associateToken or
\* transferToken cannot complete, the operation ends as it does for a service
\* answer of INVALID_TRANSACTION, not as a distinct transport fault
C11_FailureLooksLikeRejection ==
    (IsTokenCall /\ ~last.calls[1].resp.success) =>
        /\ last.status = "revert"
        /\ last.error = RejectionMessage

\* ---- C11 (amended): when the external call of associateToken or
\* transferToken cannot complete, the operation fails with a transport fault
\* that is distinct from the failure reported for any response code, and no
\* INVALID_TRANSACTION is handed to the caller
C11_FailureIsDistinctFault ==
    (IsTokenCall /\ ~last.calls[1].resp.success) =>
        /\ last.status = "revert"
        /\ last.error \notin {AssociateError, TransferError, NoError}
        /\ last.ret # <<INVALID_TRANSACTION>>

\* an association has ended after the call to the service failed
C11_Witness ==
    /\ last.op = "associate"
    /\ ~last.calls[1].resp.success
    /\ last.status = "revert"

\* ---- C14: under the direct interface call a failed external call makes the
\* whole operation fail with that fault; no response code is returned and
\* nothing is changed
C14_StrictPropagates ==
    (IsTokenCall /\ ~last.calls[1].resp.success) =>
        /\ last.status = "revert"
        /\ last.error = CallFault
        /\ last.ret = <<>>
        /\ Len(last.calls) = 1
        /\ landParcels = pre.landParcels /\ log = pre.log

\* a transfer has ended after the call to the service failed
C14_Witness ==
    /\ last.op = "transfer"
    /\ ~last.calls[1].resp.success
    /\ last.error = CallFault

IsAdapterCall == last.op \in {"adapter.associate", "adapter.transfer"}

\* ---- C12: the defensive adapter returns INVALID_TRANSACTION whenever the
\* low-level call reports failure, and never passes that failure on as a fault
C12_DefensiveSubstitutes ==
    (IsAdapterCall /\ ~last.calls[1].resp.success) =>
        /\ last.status = "ok"
        /\ last.error = NoError
        /\ last.ret = <<INVALID_TRANSACTION>>

\* the adapter's transfer has returned after its low-level call failed
C12_Witness ==
    /\ last.op = "adapter.transfer"
    /\ ~last.calls[1].resp.success
    /\ last.ret = <<INVALID_TRANSACTION>>

\* ---- C13 (as claimed): whatever the service does, the defensive adapter
\* returns a value, and the value is one of the five documented codes
C13_AlwaysInVocabulary ==
    IsAdapterCall =>
        /\ last.status = "ok"
        /\ Len(last.ret) = 1
        /\ last.ret[1] \in ResponseVocabulary

\* ---- C13 (amended): every value the defensive adapter returns is either
\* INVALID_TRANSACTION or the code the service answered, documented or not,
\* and the adapter ends in a fault only when a call that succeeded left return
\* data too short to decode
C13_ValueOrDecodeFault ==
    IsAdapterCall =>
        LET resp == last.calls[1].resp IN
        /\ last.status = "ok" =>
              /\ Len(last.ret) = 1
              /\ \/ last.ret[1] = INVALID_TRANSACTION
                 \/ CallCompleted(resp) /\ last.ret[1] = resp.data[1]
        /\ last.status = "revert" =>
              /\ resp.success /\ Len(resp.data) < 1
              /\ last.error = DecodeFault

\* the adapter's association has returned a code the library does not name
C13_Witness ==
    /\ last.op = "adapter.associate" /\ last.status = "ok"
    /\ last.ret[1] \notin ResponseVocabulary
    /\ last.ret[1] = last.calls[1].resp.data[1]

\* ---- C15: on a call that completes with code c the interface call and the
\* defensive adapter both yield c, for both operations and all arguments; the
\* two differ only when the call itself fails
C15_StrategiesAgree ==
    IsAdapterCall =>
        LET resp == last.calls[1].resp
            strict == InterfaceCall(resp)
            defensive == [fault |-> last.error, value |-> last.ret]
        IN  /\ CallCompleted(resp) =>
                  /\ defensive = strict
                  /\ defensive.value = <<resp.data[1]>>
            /\ defensive # strict => ~resp.success

\* the adapter's transfer of a negative amount has returned the rejection
\* code the service answered
C15_Witness ==
    /\ last.op = "adapter.transfer" /\ last.status = "ok"
    /\ last.args[4] < 0
    /\ CallCompleted(last.calls[1].resp)
    /\ last.ret = <<INSUFFICIENT_TOKEN_BALANCE>>

\* ---- C16: associateToken and transferToken leave the record mapping and the
\* audit log as they found them whatever their outcome; they write nothing,
\* so nothing is written after their one external call
C16_TokenOpsWriteNothing ==
    IsTokenCall =>
        /\ landParcels = pre.landParcels
        /\ log = pre.log
        /\ tokenService = PRECOMPILED_TOKEN_SERVICE

\* a transfer of a verified parcel's token has succeeded
C16_Witness ==
    /\ last.op = "transfer" /\ last.status = "ok"
    /\ landParcels[last.args[1]].isVerified
    /\ Len(log) >= 2

\* ---- C17: a committed add appends exactly one added entry {identifier,
\* score, type}, a committed verify exactly one verified entry whose verifier
\* and timestamp are those just stored; entries already in the log stay as
\* they are, in their order
C17_LogAppends ==
    /\ (IsRegistryCall("add") /\ last.status = "ok") =>
          log = Append(pre.log, [event |-> "BiodiversityDataAdded",
                                 tokenId |-> LastId,
                                 biodiversityScore |-> last.args[2],
                                 ecosystemType |-> last.args[3]])
    /\ (IsRegistryCall("verify") /\ last.status = "ok") =>
          /\ log = Append(pre.log,
                          [event |-> "BiodiversityDataVerified",
                           tokenId |-> LastId,
                           verifier |-> landParcels[LastId].verifier,
                           timestamp |-> landParcels[LastId].verificationTimestamp])
          /\ log[Len(log)].verifier = last.sender
          /\ log[Len(log)].timestamp = last.time
    /\ Len(log) >= Len(pre.log)
    /\ \A i \in 1..Len(pre.log) : log[i] = pre.log[i]

\* a verify has committed after two earlier entries
C17_Witness ==
    /\ IsRegistryCall("verify") /\ last.status = "ok"
    /\ Len(pre.log) = 2
    /\ Len(log) = 3

\* the operations that the control flow names: write, verify, associate, transfer
IsControlFlowCall == last.op \in {"add", "verify", "associate", "transfer"}

\* ---- C18 (as claimed): every public operation that completes successfully,
\* a successful associateToken or transferToken included, adds an audit entry
C18_EverySuccessNotifies ==
    (IsControlFlowCall /\ last.status = "ok") => Len(log) = Len(pre.log) + 1

\* ---- C18 (amended): every successful addBiodiversityData and
\* verifyBiodiversityData adds one audit entry; a successful associateToken or
\* transferToken adds none
C18_OnlyRegistryNotifies ==
    /\ (last.op \in {"add", "verify"} /\ last.status = "ok") =>
          Len(log) = Len(pre.log) + 1
    /\ (IsTokenCall /\ last.status = "ok") => Len(log) = Len(pre.log)

\* an association has succeeded with entries already in the log
C18_Witness ==
    /\ last.op = "associate" /\ last.status = "ok"
    /\ Len(log) >= 1

\* ---- C19: getBiodiversityData never fails and changes neither mapping nor
\* log; for an identifier never written it returns the zero-valued record
C19_GetIsPure ==
    IsRegistryCall("get") =>
        /\ last.status = "ok"
        /\ landParcels = pre.landParcels
        /\ log = pre.log
        /\ Len(last.ret) = 1
        /\ LatestAdded(log, LastId, Len(log)) = 0 =>
              last.ret[1] = [biodiversityScore |-> 0, ecosystemType |-> "",
                             verificationTimestamp |-> 0, verifier |-> ZeroAddress,
                             isVerified |-> FALSE]

\* an identifier never written was read while another holds verified data
C19_Witness ==
    /\ IsRegistryCall("get")
    /\ LatestAdded(log, LastId, Len(log)) = 0
    /\ \E u \in TokenIds : landParcels[u].isVerified

\* tokenId was written, and only ever with score 0
WrittenOnlyZero(lg, tokenId) ==
    /\ LatestAdded(lg, tokenId, Len(lg)) > 0
    /\ \A i \in 1..Len(lg) :
          (lg[i].event = "BiodiversityDataAdded" /\ lg[i].tokenId = tokenId) =>
              lg[i].biodiversityScore = 0

\* ---- C20 (as claimed): once P was written with score 0 (and nothing else),
\* getBiodiversityData(P) and verifyBiodiversityData(P) give what they give in
\* the run that never wrote P: the zero-valued record and the no-data error
C20_ZeroLooksAbsent ==
    /\ (IsRegistryCall("get") /\ WrittenOnlyZero(pre.log, LastId)) =>
          last.ret = <<ZeroRecord>>
    /\ (IsRegistryCall("verify") /\ WrittenOnlyZero(pre.log, LastId)) =>
          last.status = "revert" /\ last.error = NoDataError

\* ---- C20 (amended): once P was written with score 0 (and nothing else),
\* verifyBiodiversityData(P) fails with the no-data error as in the run that
\* never wrote P, and getBiodiversityData(P) returns the zero-valued record
\* except for ecosystemType, which is the one last written
C20_ZeroLooksAbsentButForType ==
    /\ (IsRegistryCall("get") /\ WrittenOnlyZero(pre.log, LastId)) =>
          last.ret = <<[ZeroRecord EXCEPT !.ecosystemType =
                          pre.log[LatestAdded(pre.log, LastId, Len(pre.log))].ecosystemType]>>
    /\ (IsRegistryCall("verify") /\ WrittenOnlyZero(pre.log, LastId)) =>
          /\ last.status = "revert" /\ last.error = NoDataError
          /\ landParcels = pre.landParcels /\ log = pre.log

\* a parcel written with score 0 was read and shows its ecosystem type
C20_Witness ==
    /\ IsRegistryCall("get")
    /\ WrittenOnlyZero(pre.log, LastId)
    /\ last.ret[1].biodiversityScore = 0
    /\ last.ret[1].ecosystemType = "wetland"

\* the verifier of the latest BiodiversityDataVerified event for tokenId in lg
RECURSIVE LatestVerified(_, _, _)
LatestVerified(lg, tokenId, i) ==
    IF i = 0 THEN 0
    ELSE IF lg[i].event = "BiodiversityDataVerified" /\ lg[i].tokenId = tokenId THEN i
    ELSE LatestVerified(lg, tokenId, i - 1)

\* ---- C21: verifyBiodiversityData checks no authorization: whoever calls it,
\* it succeeds whenever the stored score is above 0, and the verifier stored is
\* the caller of the most recent successful verify
C21_VerifyOpenToAll ==
    /\ (IsRegistryCall("verify") /\ pre.landParcels[LastId].biodiversityScore > 0) =>
          /\ last.status = "ok"
          /\ landParcels[LastId].verifier = last.sender
    /\ \A t \in TokenIds :
          landParcels[t].isVerified =>
              /\ LatestVerified(log, t, Len(log)) > 0
              /\ landParcels[t].verifier = log[LatestVerified(log, t, Len(log))].verifier

\* sender B has verified a parcel that sender A had verified
C21_Witness ==
    /\ IsRegistryCall("verify") /\ last.status = "ok" /\ last.sender = "B"
    /\ pre.landParcels[LastId].verifier = "A"
    /\ landParcels[LastId].verifier = "B"

\* the three verification fields of a record are all set or all clear
VerificationWhole(rec) ==
    \/ rec.isVerified /\ rec.verificationTimestamp > 0 /\ rec.verifier # ZeroAddress
    \/ ~rec.isVerified /\ rec.verificationTimestamp = 0 /\ rec.verifier = ZeroAddress

\* ---- C22: every public operation is all-or-nothing: one that ends in an
\* error leaves mapping and log as they were, and no state shows only some of
\* verify's three field writes
C22_AllOrNothing ==
    /\ last.status = "revert" => landParcels = pre.landParcels /\ log = pre.log
    /\ \A t \in TokenIds : VerificationWhole(landParcels[t])

\* an out-of-range add has failed on a parcel that holds data
C22_Witness ==
    /\ IsRegistryCall("add") /\ last.status = "revert" /\ last.error = ScoreError
    /\ DataExists(landParcels[LastId])
    /\ landParcels[LastId].ecosystemType # last.args[3]

\* ---- C23: each associateToken or transferToken makes exactly one call to the
\* external service, at the fixed address 0x167, which no operation changes;
\* a failure or a rejection is not followed by a second call
C23_OneCallFixedAddress ==
    /\ tokenService = PRECOMPILED_TOKEN_SERVICE
    /\ IsTokenCall =>
          /\ Len(last.calls) = 1
          /\ last.calls[1].to = PRECOMPILED_TOKEN_SERVICE
          /\ last.calls[1].to = precompileAddress
          /\ last.calls[1].args = last.args
    /\ ~IsTokenCall /\ ~IsAdapterCall => last.calls = <<>>

\* an association has ended after the service rejected it
C23_Witness ==
    /\ last.op = "associate" /\ last.status = "revert"
    /\ last.calls[1].resp = [success |-> TRUE, data |-> <<TOKEN_NOT_ASSOCIATED_TO_ACCOUNT>>]

\* ---- C24: a failed add, a failed verify and every get append nothing to the
\* log; the log grows only in a committed add or verify
C24_LogGrowsOnCommitOnly ==
    /\ (last.op \in {"add", "verify"} /\ last.status = "revert") => log = pre.log
    /\ IsRegistryCall("get") => log = pre.log
    /\ log # pre.log => last.op \in {"add", "verify"} /\ last.status = "ok"

\* a verify was refused with entries already in the log
C24_Witness ==
    /\ IsRegistryCall("verify") /\ last.status = "revert"
    /\ Len(log) >= 1

\* ---- C25: under the defensive adapter a failed call and a service answer of
\* INVALID_TRANSACTION give the caller the same return value and leave the
\* same state
C25_FailureLooksLikeInvalid ==
    (/\ IsAdapterCall
     /\ \/ ~last.calls[1].resp.success
        \/ last.calls[1].resp = [success |-> TRUE, data |-> <<INVALID_TRANSACTION>>]) =>
        /\ [status |-> last.status, error |-> last.error, ret |-> last.ret] =
              [status |-> "ok", error |-> NoError, ret |-> <<INVALID_TRANSACTION>>]
        /\ landParcels = pre.landParcels /\ log = pre.log
        /\ tokenService = PRECOMPILED_TOKEN_SERVICE

\* the adapter's association has returned the service's INVALID_TRANSACTION
C25_Witness ==
    /\ last.op = "adapter.associate"
    /\ last.calls[1].resp = [success |-> TRUE, data |-> <<INVALID_TRANSACTION>>]
    /\ last.ret = <<INVALID_TRANSACTION>>

\* ---- C28: an add or verify on identifier i, committed or failed, leaves the
\* record of every other identifier as it was
C28_OtherParcelsUntouched ==
    last.op \in {"add", "verify"} =>
        \A j \in TokenIds \ {LastId} : landParcels[j] = pre.landParcels[j]

\* an add has committed while another parcel is verified
C28_Witness ==
    /\ IsRegistryCall("add") /\ last.status = "ok"
    /\ \E j \in TokenIds \ {LastId} : landParcels[j].isVerified

\* ---- C29: verifyBiodiversityData never changes score or ecosystem type:
\* after an add and any number of verifies both equal what the add was given
C29_VerifyKeepsData ==
    /\ IsRegistryCall("verify") =>
          /\ landParcels[LastId].biodiversityScore =
                pre.landParcels[LastId].biodiversityScore
          /\ landParcels[LastId].ecosystemType = pre.landParcels[LastId].ecosystemType
    /\ \A t \in TokenIds :
          LET i == LatestAdded(log, t, Len(log)) IN
          i > 0 =>
              /\ landParcels[t].biodiversityScore = log[i].biodiversityScore
              /\ landParcels[t].ecosystemType = log[i].ecosystemType

\* a parcel has been verified a second time since its add
C29_Witness ==
    /\ IsRegistryCall("verify") /\ last.status = "ok"
    /\ Len(log) = 3
    /\ log[1].event = "BiodiversityDataAdded" /\ log[1].tokenId = LastId
    /\ log[2].event = "BiodiversityDataVerified" /\ log[2].tokenId = LastId

\* ---- C30: in every reachable state a verified record has a score in 1..100
C30_VerifiedHasScore ==
    \A t \in TokenIds :
        landParcels[t].isVerified =>
            landParcels[t].biodiversityScore >= 1 /\ landParcels[t].biodiversityScore <= MAX_SCORE

\* one parcel is verified, another was written with score 0
C30_Witness ==
    \E t, u \in TokenIds :
        /\ landParcels[t].isVerified
        /\ LatestAdded(log, u, Len(log)) > 0
        /\ landParcels[u].biodiversityScore = 0

\* the latest transaction was a token operation whose service called back
IsReentrantCall == IsTokenCall /\ last.calls[1].callback.op # "none"

\* ---- C27: when the service calls back into add or verify during
\* associateToken or transferToken and the outer operation then fails, mapping
\* and log end as they were before the outer operation began; the callback's
\* writes survive only when the outer operation succeeds
C27_CallbackSharesFate ==
    IsReentrantCall =>
        LET nested == CallbackEffect(pre, last.calls[1].callback, last.time) IN
        /\ last.status = "revert" => landParcels = pre.landParcels /\ log = pre.log
        /\ last.status = "ok" => landParcels = nested.landParcels /\ log = nested.log
        /\ (landParcels # pre.landParcels \/ log # pre.log) => last.status = "ok"

\* the service verified a parcel from inside a transfer that was then rejected
C27_Witness ==
    /\ last.op = "transfer" /\ last.status = "revert" /\ last.error = TransferError
    /\ last.calls[1].callback.op = "verify"
    /\ DataExists(pre.landParcels[last.calls[1].callback.tokenId])
    /\ ~pre.landParcels[last.calls[1].callback.tokenId].isVerified

\* the steps main() has tried so far, in order
StepsTried == [i \in 1..Len(demo.attempts) |-> demo.attempts[i].step]

\* the steps left to a run in simulation mode
SimulationSteps ==
    <<"createToken", "createTopic", "registerParcel", "addData", "verifyData",
      "recordVerification">>

IsPrefix(s, t) == Len(s) <= Len(t) /\ \A i \in 1..Len(s) : s[i] = t[i]

\* the connection test has failed in this run
InSimulation == ~demo.network

C31_VerifiedFlipsByAddAndVerifyOnly ==
    \A t \in TokenIds :
        /\ (pre.landParcels[t].isVerified /\ ~landParcels[t].isVerified) =>
              IsRegistryCall("add") /\ last.status = "ok" /\ LastId = t
        /\ (~pre.landParcels[t].isVerified /\ landParcels[t].isVerified) =>
              IsRegistryCall("verify") /\ last.status = "ok" /\ LastId = t

\* a verified parcel has been cleared by an add of score 0
C31_Witness ==
    /\ IsRegistryCall("add") /\ last.args[2] = 0
    /\ pre.landParcels[LastId].isVerified /\ ~landParcels[LastId].isVerified

\* the record the log's entries for tokenId determine
RecordOfLog(lg, tokenId) ==
    LET i == LatestAdded(lg, tokenId, Len(lg))
        j == LatestVerified(lg, tokenId, Len(lg))
    IN [biodiversityScore |-> IF i > 0 THEN lg[i].biodiversityScore ELSE 0,
        ecosystemType |-> IF i > 0 THEN lg[i].ecosystemType ELSE "",
        isVerified |-> j > i,
        verificationTimestamp |-> IF j > i THEN lg[j].timestamp ELSE 0,
        verifier |-> IF j > i THEN lg[j].verifier ELSE ZeroAddress]

\* ---- C32: the mapping is a function of the log: each record has the score
\* and type of its latest added entry (zero values if none) and is verified,
\* with the verifier and timestamp of its latest verified entry, exactly when
\* that entry comes after the latest added entry; otherwise it is unverified
\* with timestamp 0 and null verifier
C32_MappingFromLog ==
    \A t \in TokenIds : landParcels[t] = RecordOfLog(log, t)

\* a parcel's latest verified entry lies before its latest added entry
C32_Witness ==
    \E t \in TokenIds :
        /\ LatestVerified(log, t, Len(log)) > 0
        /\ LatestAdded(log, t, Len(log)) > LatestVerified(log, t, Len(log))
        /\ DataExists(landParcels[t])

\* ---- C33: the outcome of associateToken and transferToken is decided by the
\* service's answer alone: the arguments go to the service as given, with no
\* check of their own, so any account, token and amount (zero, negative,
\* from = to) succeeds exactly when the call completes with SUCCESS
C33_OutcomeFromAnswerOnly ==
    IsTokenCall =>
        /\ Len(last.calls) = 1
        /\ last.calls[1].args = last.args
        /\ LET resp == last.calls[1].resp
               accepted == CallCompleted(resp) /\ resp.data[1] = SUCCESS
           IN /\ last.status = IF accepted THEN "ok" ELSE "revert"
              /\ last.ret = IF accepted THEN <<SUCCESS>> ELSE <<>>
              /\ last.error = IF accepted THEN NoError
                              ELSE IF ~resp.success THEN CallFault
                              ELSE IF Len(resp.data) < 1 THEN DecodeFault
                              ELSE RejectionMessage

\* a transfer of a negative amount from an account to itself has gone through
C33_Witness ==
    /\ last.op = "transfer" /\ last.status = "ok"
    /\ last.args[4] < 0 /\ last.args[2] = last.args[3]

\* the run found no usable credentials: OPERATOR_ID or OPERATOR_KEY missing,
\* or a key PrivateKey.fromString rejects
CredentialsUnusable ==
    /\ demo.pc # "setup"
    /\ ~(demo.env.operatorId /\ demo.env.operatorKey /\ demo.env.keyParses)

====
